---- MODULE Spec2Model ----
(***************************************************************************)
(* Uncle & Aunty Kitchen: the content loader (loadData and its cache), the   *)
(* five section renderers and the bootstrapper init.                        *)
(*                                                                         *)
(* The repository holds two versions of the application script:            *)
(*   "tolerant"  src/unnamed/part_000  (text() + JSON.parse, Array.isArray  *)
(*               checks and `|| default` fallbacks in the renderers)        *)
(*   "strict"    src/js/app.js         (response.json(), no fallbacks)      *)
(* The variable `variant` says which of the two the page has loaded.        *)
(*                                                                         *)
(* Scheduling follows the browser event loop: one action is one task (a    *)
(* fetch or body read completing, DOMContentLoaded, a direct call) together *)
(* with the continuations of loadData and of the awaiting renderer, which   *)
(* run as microtasks before any other task or event.  The continuation of   *)
(* init (after Promise.all) is an action of its own.                        *)
(*                                                                         *)
(* Markup is modelled as the sequence of its tags and text nodes; the       *)
(* whitespace between the tags of the template literals is dropped.         *)
(***************************************************************************)
EXTENDS Integers, Sequences, FiniteSets, TLC

VARIABLES variant, dataCache, fetches, task, dom, initPc, navWired, console

vars == <<variant, dataCache, fetches, task, dom, initPc, navWired, console>>

\* Number of direct loadData calls (callers other than the five renderers).
MaxCalls == 3

Variants == {"tolerant", "strict"}

-----------------------------------------------------------------------------
(* JavaScript values, as far as the documents need them.                    *)

Undef == [t |-> "undefined"]
Null == [t |-> "null"]
Str(s) == [t |-> "string", s |-> s]
Num(n) == [t |-> "number", n |-> n]
Arr(a) == [t |-> "array", a |-> a]
\* An object: its keys in insertion order (the order of the JSON text) and
\* the property values.
Obj(keys, f) == [t |-> "object", keys |-> keys, f |-> f]
EmptyObj == Obj(<<>>, <<>>)

\* ToBoolean, as used by `if (x)`, `!x`, `x || y` and `x ? a : b`.
Truthy(x) ==
    CASE x.t = "undefined" -> FALSE
      [] x.t = "null" -> FALSE
      [] x.t = "string" -> x.s # ""
      [] x.t = "number" -> x.n # 0
      [] OTHER -> TRUE

\* x || y
Or(x, y) == IF Truthy(x) THEN x ELSE y

\* Reading a property of undefined or null throws a TypeError.
CanRead(x) == x.t \notin {"undefined", "null"}

\* A built-in method read as a property value (never called here).
Native(name) == [t |-> "function", src |-> "function " \o name \o "() { [native code] }"]

\* x[k] for a value whose properties can be read and a key the renderers
\* use: an own property of an object; String.prototype.link for the key
\* "link" of a string; undefined for everything else.
Get(x, k) ==
    IF x.t = "object" /\ k \in DOMAIN x.f THEN x.f[k]
    ELSE IF x.t = "string" /\ k = "link" THEN Native("link")
    ELSE Undef

IsArray(x) == x.t = "array"

\* x.map(...) can be called: x is an array (any other value has no map).
HasMap(x) == x.t = "array"

\* x.replace(...) can be called: x is a string.
HasReplace(x) == x.t = "string"

RECURSIVE JoinStr(_, _)
JoinStr(strs, sep) ==
    IF Len(strs) = 0 THEN ""
    ELSE IF Len(strs) = 1 THEN strs[1]
    ELSE strs[1] \o sep \o JoinStr(Tail(strs), sep)

\* ToString succeeds on x.  It throws a TypeError (cannot convert object to
\* primitive value) on an object with an own property "toString", which in
\* a parsed document is never callable, and on an array that joins such an
\* object.
RECURSIVE CanStr(_)
CanStr(x) ==
    CASE x.t = "object" -> \A i \in 1..Len(x.keys) : x.keys[i] # "toString"
      [] x.t = "array" -> \A i \in 1..Len(x.a) : ~CanRead(x.a[i]) \/ CanStr(x.a[i])
      [] OTHER -> TRUE

AllCanStr(xs) == \A i \in 1..Len(xs) : CanStr(xs[i])

\* ToString, as done by a template literal's ${...} and by the textContent
\* setter, for a value on which it succeeds (CanStr).
RECURSIVE ToStr(_)
ToStr(x) ==
    CASE x.t = "undefined" -> "undefined"
      [] x.t = "null" -> "null"
      [] x.t = "string" -> x.s
      [] x.t = "number" -> ToString(x.n)
      [] x.t = "function" -> x.src
      [] x.t = "array" ->
            JoinStr([i \in 1..Len(x.a) |->
                        IF CanRead(x.a[i]) THEN ToStr(x.a[i]) ELSE ""], ",")
      [] x.t = "object" /\ CanStr(x) -> "[object Object]"

Digits == <<"0", "1", "2", "3", "4", "5", "6", "7", "8", "9">>
IsDigit(c) == \E d \in 1..10 : Digits[d] = c
DigitValue(c) == (CHOOSE d \in 1..10 : Digits[d] = c) - 1

\* A canonical decimal numeral: digits only, no leading zero.
IsNumeral(k) ==
    /\ Len(k) >= 1
    /\ \A i \in 1..Len(k) : IsDigit(SubSeq(k, i, i))
    /\ (Len(k) = 1 \/ SubSeq(k, 1, 1) # "0")

\* The numeral k denotes at most what the numeral m denotes: it is shorter,
\* or as long and not greater at the first digit where they differ.
NumeralLeq(k, m) ==
    \/ Len(k) < Len(m)
    \/ /\ Len(k) = Len(m)
       /\ \/ k = m
          \/ \E i \in 1..Len(k) :
                /\ SubSeq(k, 1, i - 1) = SubSeq(m, 1, i - 1)
                /\ DigitValue(SubSeq(k, i, i)) < DigitValue(SubSeq(m, i, i))

\* The largest array index, 2^32 - 2.
MaxArrayIndex == "4294967294"

\* A property key that is an array index.
IsIndexKey(k) == IsNumeral(k) /\ NumeralLeq(k, MaxArrayIndex)

\* The own keys of an object in the order JavaScript enumerates them: the
\* array-index keys in ascending numeric order, then the other keys in
\* insertion order.
OwnKeys(x) ==
    LET idx == {i \in 1..Len(x.keys) : IsIndexKey(x.keys[i])}
        Rank(i) == Cardinality({j \in idx : NumeralLeq(x.keys[j], x.keys[i])})
    IN [r \in 1..Cardinality(idx) |-> x.keys[CHOOSE i \in idx : Rank(i) = r]]
       \o SelectSeq(x.keys, LAMBDA k : ~IsIndexKey(k))

\* Object.values(x) for a value that is not undefined or null: the property
\* values of an object in the order of OwnKeys, the elements of an array,
\* the characters of a string, nothing for a number.
ObjectValues(x) ==
    CASE x.t = "object" -> LET keys == OwnKeys(x)
                           IN [i \in 1..Len(keys) |-> x.f[keys[i]]]
      [] x.t = "array" -> x.a
      [] x.t = "string" -> [i \in 1..Len(x.s) |-> Str(SubSeq(x.s, i, i))]
      [] OTHER -> <<>>

\* The first position at or after i where pat occurs in s, 0 if none.
RECURSIVE IndexFrom(_, _, _)
IndexFrom(s, pat, i) ==
    IF i + Len(pat) - 1 > Len(s) THEN 0
    ELSE IF SubSeq(s, i, i + Len(pat) - 1) = pat THEN i
    ELSE IndexFrom(s, pat, i + 1)

\* s.replace(pat, rep) with a string pattern: the first occurrence only.
Replace(s, pat, rep) ==
    LET i == IndexFrom(s, pat, 1)
    IN IF i = 0 THEN s
       ELSE SubSeq(s, 1, i - 1) \o rep \o SubSeq(s, i + Len(pat), Len(s))

RECURSIVE Flatten(_)
Flatten(seqs) ==
    IF Len(seqs) = 0 THEN <<>> ELSE Head(seqs) \o Flatten(Tail(seqs))

\* element.textContent = x for a value the setter can convert: undefined
\* and null give the empty text, any other value its string; the content
\* is then at most one text node.
TextContent(x) ==
    LET s == IF CanRead(x) THEN ToStr(x) ELSE ""
    IN IF s = "" THEN <<>> ELSE <<s>>

-----------------------------------------------------------------------------
(* The page.  A renderer is a sequence of steps run in order: a step either *)
(* writes one render target or throws a TypeError, which ends the renderer  *)
(* with the earlier writes kept.                                            *)

Targets ==
    {".hero h1", ".tagline", ".subtitle", ".nav-logo", ".footer-logo", ".copyright",
     "#about h2", "#about .about-text",
     "#menu h2", "#menu .menu-grid", "#menu .menu-note",
     "#services h2", "#services .services-grid",
     "#contact h2", "#contact .contact-info", "#contact .contact-cta"}

\* The content every target has in the page skeleton before any render.
Skeleton == [x \in Targets |-> <<"(skeleton)">>]

Write(target, value) == [throws |-> FALSE, target |-> target, value |-> value]
Throw == [throws |-> TRUE, target |-> "", value |-> <<>>]

\* element.textContent = x as a renderer step: the conversion of x to a
\* string may throw.
TextStep(target, x) ==
    IF CanStr(x) THEN Write(target, TextContent(x)) ELSE Throw

\* Every element of an array can have its properties read.
ElemsReadable(a) == \A i \in 1..Len(a) : CanRead(a[i])

FeatureMarkup(icon, text) ==
    <<"<div class=\"feature\">", "<span class=\"feature-icon\">", ToStr(icon),
      "</span>", "<span>", ToStr(text), "</span>", "</div>">>

DishMarkup(name, description) ==
    <<"<li>", "<span class=\"dish-name\">", ToStr(name), "</span>",
      "<span class=\"dish-desc\">", ToStr(description), "</span>", "</li>">>

CategoryMarkup(name, dishes) ==
    <<"<div class=\"menu-category\">", "<h3>", ToStr(name), "</h3>", "<ul>">>
    \o dishes \o <<"</ul>", "</div>">>

ServiceMarkup(icon, name, description) ==
    <<"<div class=\"service-card\">", "<div class=\"service-icon\">", ToStr(icon),
      "</div>", "<h3>", ToStr(name), "</h3>", "<p>", ToStr(description), "</p>",
      "</div>">>

ContactItemMarkup(icon, label, link, value) ==
    <<"<div class=\"contact-item\">", "<span class=\"contact-icon\">", ToStr(icon),
      "</span>", "<div>", "<h4>", ToStr(label), "</h4>", "<p>">>
    \o (IF Truthy(link)
        THEN <<"<a href=\"" \o ToStr(link) \o "\">", ToStr(value), "</a>">>
        ELSE <<ToStr(value)>>)
    \o <<"</p>", "</div>", "</div>">>

CtaMarkup(text, href, button) ==
    <<"<p>", ToStr(text), "</p>",
      "<a href=\"" \o ToStr(href) \o "\" class=\"cta-button\">", ToStr(button), "</a>">>

\* renderSite after `if (!site) return`; the same in both versions.
RenderSite(site) ==
    LET name == Get(site, "name")
    IN << TextStep(".hero h1", name),
          TextStep(".tagline", Get(site, "tagline")),
          TextStep(".subtitle", Get(site, "subtitle")),
          IF HasReplace(name)
            THEN Write(".nav-logo", TextContent(Str(Replace(name.s, " Kitchen", ""))))
            ELSE Throw,
          TextStep(".footer-logo", name),
          IF CanStr(Get(site, "copyright"))
            THEN Write(".copyright", <<"&copy; " \o ToStr(Get(site, "copyright"))>>)
            ELSE Throw >>

\* renderAbout after `if (!about) return`, tolerant version.
RenderAboutTolerant(about) ==
    LET paragraphs == IF IsArray(Get(about, "paragraphs"))
                        THEN Get(about, "paragraphs").a ELSE <<>>
        features == IF IsArray(Get(about, "features"))
                      THEN Get(about, "features").a ELSE <<>>
        Icon(f) == Or(Get(f, "icon"), Str(""))
        Text(f) == Or(Get(f, "text"), Str(""))
        ok == /\ AllCanStr(paragraphs)
              /\ ElemsReadable(features)
              /\ \A i \in 1..Len(features) :
                    CanStr(Icon(features[i])) /\ CanStr(Text(features[i]))
        paragraphsHtml ==
            Flatten([i \in 1..Len(paragraphs) |-> <<"<p>", ToStr(paragraphs[i]), "</p>">>])
        featuresHtml ==
            Flatten([i \in 1..Len(features) |->
                FeatureMarkup(Icon(features[i]), Text(features[i]))])
    IN << TextStep("#about h2", Or(Get(about, "title"), Str("About Us"))),
          IF ok
            THEN Write("#about .about-text",
                       paragraphsHtml \o
                       (IF Len(features) # 0
                          THEN <<"<div class=\"features\">">> \o featuresHtml \o <<"</div>">>
                          ELSE <<>>))
            ELSE Throw >>

\* renderAbout after `if (!about) return`, strict version.
RenderAboutStrict(about) ==
    LET ok == /\ HasMap(Get(about, "paragraphs"))
              /\ AllCanStr(Get(about, "paragraphs").a)
              /\ HasMap(Get(about, "features"))
              /\ ElemsReadable(Get(about, "features").a)
              /\ \A i \in 1..Len(Get(about, "features").a) :
                    /\ CanStr(Get(Get(about, "features").a[i], "icon"))
                    /\ CanStr(Get(Get(about, "features").a[i], "text"))
        paragraphs == Get(about, "paragraphs").a
        features == Get(about, "features").a
        paragraphsHtml ==
            Flatten([i \in 1..Len(paragraphs) |-> <<"<p>", ToStr(paragraphs[i]), "</p>">>])
        featuresHtml ==
            Flatten([i \in 1..Len(features) |->
                FeatureMarkup(Get(features[i], "icon"), Get(features[i], "text"))])
    IN << TextStep("#about h2", Get(about, "title")),
          IF ok
            THEN Write("#about .about-text",
                       paragraphsHtml \o <<"<div class=\"features\">">>
                       \o featuresHtml \o <<"</div>">>)
            ELSE Throw >>

\* renderMenu after `if (!menu) return`, tolerant version.
RenderMenuTolerant(menu) ==
    LET categories == IF IsArray(Get(menu, "categories"))
                        THEN Get(menu, "categories").a ELSE <<>>
        ItemsOf(category) == IF IsArray(Get(category, "items"))
                               THEN Get(category, "items").a ELSE <<>>
        CatName(category) == Or(Get(category, "name"), Str("Menu"))
        DishName(item) == Or(Get(item, "name"), Str(""))
        DishDesc(item) == Or(Get(item, "description"), Str(""))
        ok == /\ ElemsReadable(categories)
              /\ \A i \in 1..Len(categories) :
                    /\ ElemsReadable(ItemsOf(categories[i]))
                    /\ CanStr(CatName(categories[i]))
                    /\ \A j \in 1..Len(ItemsOf(categories[i])) :
                          /\ CanStr(DishName(ItemsOf(categories[i])[j]))
                          /\ CanStr(DishDesc(ItemsOf(categories[i])[j]))
        DishesHtml(items) ==
            Flatten([j \in 1..Len(items) |->
                DishMarkup(DishName(items[j]), DishDesc(items[j]))])
        categoriesHtml ==
            Flatten([i \in 1..Len(categories) |->
                CategoryMarkup(CatName(categories[i]),
                               DishesHtml(ItemsOf(categories[i])))])
    IN << TextStep("#menu h2", Or(Get(menu, "title"), Str("Our Menu"))),
          IF ok THEN Write("#menu .menu-grid", categoriesHtml) ELSE Throw,
          TextStep("#menu .menu-note", Or(Get(menu, "note"), Str(""))) >>

\* renderMenu after `if (!menu) return`, strict version.
RenderMenuStrict(menu) ==
    LET ok == /\ HasMap(Get(menu, "categories"))
              /\ ElemsReadable(Get(menu, "categories").a)
              /\ \A i \in 1..Len(Get(menu, "categories").a) :
                    LET c == Get(menu, "categories").a[i]
                    IN /\ CanStr(Get(c, "name"))
                       /\ HasMap(Get(c, "items"))
                       /\ ElemsReadable(Get(c, "items").a)
                       /\ \A j \in 1..Len(Get(c, "items").a) :
                             /\ CanStr(Get(Get(c, "items").a[j], "name"))
                             /\ CanStr(Get(Get(c, "items").a[j], "description"))
        categories == Get(menu, "categories").a
        DishesHtml(items) ==
            Flatten([j \in 1..Len(items) |->
                DishMarkup(Get(items[j], "name"), Get(items[j], "description"))])
        categoriesHtml ==
            Flatten([i \in 1..Len(categories) |->
                CategoryMarkup(Get(categories[i], "name"),
                               DishesHtml(Get(categories[i], "items").a))])
    IN << TextStep("#menu h2", Get(menu, "title")),
          IF ok THEN Write("#menu .menu-grid", categoriesHtml) ELSE Throw,
          TextStep("#menu .menu-note", Get(menu, "note")) >>

\* renderServices after `if (!services) return`, tolerant version.
RenderServicesTolerant(services) ==
    LET items == IF IsArray(Get(services, "items")) THEN Get(services, "items").a ELSE <<>>
        Icon(x) == Or(Get(x, "icon"), Str(""))
        Name(x) == Or(Get(x, "name"), Str(""))
        Desc(x) == Or(Get(x, "description"), Str(""))
        ok == /\ ElemsReadable(items)
              /\ \A i \in 1..Len(items) :
                    CanStr(Icon(items[i])) /\ CanStr(Name(items[i])) /\ CanStr(Desc(items[i]))
        servicesHtml ==
            Flatten([i \in 1..Len(items) |->
                ServiceMarkup(Icon(items[i]), Name(items[i]), Desc(items[i]))])
    IN << TextStep("#services h2", Or(Get(services, "title"), Str("Our Services"))),
          IF ok THEN Write("#services .services-grid", servicesHtml) ELSE Throw >>

\* renderServices after `if (!services) return`, strict version.
RenderServicesStrict(services) ==
    LET ok == /\ HasMap(Get(services, "items"))
              /\ ElemsReadable(Get(services, "items").a)
              /\ \A i \in 1..Len(Get(services, "items").a) :
                    LET x == Get(services, "items").a[i]
                    IN /\ CanStr(Get(x, "icon"))
                       /\ CanStr(Get(x, "name"))
                       /\ CanStr(Get(x, "description"))
        items == Get(services, "items").a
        servicesHtml ==
            Flatten([i \in 1..Len(items) |->
                ServiceMarkup(Get(items[i], "icon"), Get(items[i], "name"),
                              Get(items[i], "description"))])
    IN << TextStep("#services h2", Get(services, "title")),
          IF ok THEN Write("#services .services-grid", servicesHtml) ELSE Throw >>

\* `infoContainer.innerHTML = detailItems.map(...).join('')`, tolerant
\* version.
ContactInfoTolerant(detailItems) ==
    LET Icon(x) == Or(Get(x, "icon"), Str(""))
        Label(x) == Or(Get(x, "label"), Str(""))
        Value(x) == Or(Get(x, "value"), Str(""))
        ok == /\ ElemsReadable(detailItems)
              /\ \A i \in 1..Len(detailItems) :
                    LET x == detailItems[i]
                    IN /\ CanStr(Icon(x)) /\ CanStr(Label(x)) /\ CanStr(Value(x))
                       /\ Truthy(Get(x, "link")) => CanStr(Get(x, "link"))
        contactHtml ==
            Flatten([i \in 1..Len(detailItems) |->
                ContactItemMarkup(Icon(detailItems[i]), Label(detailItems[i]),
                                  Get(detailItems[i], "link"), Value(detailItems[i]))])
    IN IF ok THEN Write("#contact .contact-info", contactHtml) ELSE Throw

\* renderContact after `if (!contact) return`, tolerant version.
RenderContactTolerant(contact) ==
    LET details == Or(Get(contact, "details"), EmptyObj)
        phone == Get(details, "phone")
        phoneLink == Or(IF CanRead(phone) THEN Get(phone, "link") ELSE Undef,
                        Str("#contact"))
        ctaText == Or(Get(contact, "cta_text"), Str(""))
        ctaButton == Or(Get(contact, "cta_button"), Str("Contact Us"))
    IN << TextStep("#contact h2", Or(Get(contact, "title"), Str("Contact Us"))),
          ContactInfoTolerant(ObjectValues(details)),
          IF CanStr(ctaText) /\ CanStr(phoneLink) /\ CanStr(ctaButton)
            THEN Write("#contact .contact-cta", CtaMarkup(ctaText, phoneLink, ctaButton))
            ELSE Throw >>

\* `infoContainer.innerHTML = Object.values(details).map(...).join('')`
\* once Object.values has returned detailItems, strict version.
ContactInfoStrict(detailItems) ==
    LET ok == /\ ElemsReadable(detailItems)
              /\ \A i \in 1..Len(detailItems) :
                    LET x == detailItems[i]
                    IN /\ CanStr(Get(x, "icon")) /\ CanStr(Get(x, "label"))
                       /\ CanStr(Get(x, "value"))
                       /\ Truthy(Get(x, "link")) => CanStr(Get(x, "link"))
        contactHtml ==
            Flatten([i \in 1..Len(detailItems) |->
                ContactItemMarkup(Get(detailItems[i], "icon"),
                                  Get(detailItems[i], "label"),
                                  Get(detailItems[i], "link"),
                                  Get(detailItems[i], "value"))])
    IN IF ok THEN Write("#contact .contact-info", contactHtml) ELSE Throw

\* renderContact after `if (!contact) return`, strict version.
RenderContactStrict(contact) ==
    LET details == Get(contact, "details")
        ctaOk == /\ CanRead(details)
                 /\ CanRead(Get(details, "phone"))
                 /\ CanStr(Get(contact, "cta_text"))
                 /\ CanStr(Get(Get(details, "phone"), "link"))
                 /\ CanStr(Get(contact, "cta_button"))
    IN << TextStep("#contact h2", Get(contact, "title")),
          IF CanRead(details) THEN ContactInfoStrict(ObjectValues(details)) ELSE Throw,
          IF ctaOk
            THEN Write("#contact .contact-cta",
                       CtaMarkup(Get(contact, "cta_text"),
                                 Get(Get(details, "phone"), "link"),
                                 Get(contact, "cta_button")))
            ELSE Throw >>

\* The renderer of a section after its NotFound check, by version.
RenderSteps(v, name, doc) ==
    CASE name = "site" -> RenderSite(doc)
      [] name = "about" ->
            IF v = "tolerant" THEN RenderAboutTolerant(doc) ELSE RenderAboutStrict(doc)
      [] name = "menu" ->
            IF v = "tolerant" THEN RenderMenuTolerant(doc) ELSE RenderMenuStrict(doc)
      [] name = "services" ->
            IF v = "tolerant" THEN RenderServicesTolerant(doc)
            ELSE RenderServicesStrict(doc)
      [] name = "contact" ->
            IF v = "tolerant" THEN RenderContactTolerant(doc)
            ELSE RenderContactStrict(doc)

\* RendererSteps without the NotFound check: the steps run on whatever
\* loadData returned, and reading a property of null throws.
RendererSteps_NoCheck(v, name, ret) ==
    IF CanRead(ret) THEN RenderSteps(v, name, ret) ELSE <<Throw>>

\* `const doc = await loadData(name); if (!doc) return;` and then the steps.
RendererSteps(v, name, ret) ==
    IF ~Truthy(ret) THEN <<>> ELSE RenderSteps(v, name, ret)

\* Runs steps in order on the page d: [dom, threw].
RECURSIVE RunSteps(_, _)
RunSteps(steps, d) ==
    IF Len(steps) = 0 THEN [dom |-> d, threw |-> FALSE]
    ELSE IF Head(steps).throws THEN [dom |-> d, threw |-> TRUE]
    ELSE RunSteps(Tail(steps), [d EXCEPT ![Head(steps).target] = Head(steps).value])

\* The page and the state of an async renderer's promise once its steps
\* have run with result r.
RendererPromise(r) ==
    [dom |-> r.dom, pc |-> IF r.threw THEN "rejected" ELSE "fulfilled"]

\* A renderer resumed from `await loadData(name)`: loadData raising rejects
\* the renderer at once, otherwise the steps run; the renderer's promise is
\* rejected by a throw and fulfilled otherwise.
RunRenderer(v, name, res, d) ==
    IF res.threw THEN [dom |-> d, pc |-> "rejected"]
    ELSE RendererPromise(RunSteps(RendererSteps(v, name, res.value), d))

-----------------------------------------------------------------------------
(* The documents the content store may serve.                               *)

SiteFull ==
    Obj(<<"name", "tagline", "subtitle", "copyright">>,
        [name |-> Str("Uncle & Aunty Kitchen"), tagline |-> Str("Home food"),
         subtitle |-> Str("Catering"), copyright |-> Str("2024 UAK")])
SiteNoName == Obj(<<"tagline">>, [tagline |-> Str("Home food")])

Feature1 == Obj(<<"icon", "text">>, [icon |-> Str("*"), text |-> Str("Fresh")])
AboutFull ==
    Obj(<<"title", "paragraphs", "features">>,
        [title |-> Str("About"), paragraphs |-> Arr(<<Str("Hello")>>),
         features |-> Arr(<<Feature1>>)])
AboutNoFeatures ==
    Obj(<<"title", "paragraphs">>,
        [title |-> Str("About"), paragraphs |-> Arr(<<Str("Hello")>>)])
AboutNotSequences ==
    Obj(<<"paragraphs", "features">>,
        [paragraphs |-> Str("Hello"), features |-> Feature1])
\* A paragraph that is an object with an own property "toString".
AboutUnprintable ==
    Obj(<<"title", "paragraphs", "features">>,
        [title |-> Str("A"),
         paragraphs |-> Arr(<<Obj(<<"toString">>, [toString |-> Num(1)])>>),
         features |-> Arr(<<>>)])

Dish1 == Obj(<<"name", "description">>, [name |-> Str("Curry"), description |-> Str("Spicy")])
MenuFull ==
    Obj(<<"title", "categories", "note">>,
        [title |-> Str("Menu"),
         categories |-> Arr(<<Obj(<<"name", "items">>,
                                  [name |-> Str("Mains"), items |-> Arr(<<Dish1>>)])>>),
         note |-> Str("Ask us")])
MenuNoCategories == Obj(<<"title", "note">>, [title |-> Str("Menu"), note |-> Str("Ask us")])
MenuCategoryNoItems ==
    Obj(<<"categories">>,
        [categories |-> Arr(<<Obj(<<"name">>, [name |-> Str("Mains")])>>)])

Service1 ==
    Obj(<<"icon", "name", "description">>,
        [icon |-> Str("+"), name |-> Str("Catering"), description |-> Str("Events")])
ServicesFull ==
    Obj(<<"title", "items">>, [title |-> Str("Services"), items |-> Arr(<<Service1>>)])
ServicesNoItems == Obj(<<"title">>, [title |-> Str("Services")])

Phone1 ==
    Obj(<<"icon", "label", "value", "link">>,
        [icon |-> Str("T"), label |-> Str("Phone"), value |-> Str("123"),
         link |-> Str("tel:123")])
ContactFull ==
    Obj(<<"title", "details", "cta_text", "cta_button">>,
        [title |-> Str("Contact"), details |-> Obj(<<"phone">>, [phone |-> Phone1]),
         cta_text |-> Str("Call us"), cta_button |-> Str("Call")])
ContactNoDetails == Obj(<<"title">>, [title |-> Str("Contact")])
ContactDetailsString ==
    Obj(<<"title", "details">>, [title |-> Str("Contact"), details |-> Str("ab")])
\* details with an array-index key written after another key.
ContactIndexKeys ==
    Obj(<<"title", "details">>,
        [title |-> Str("Contact"),
         details |-> Obj(<<"b", "1">>,
                         [i \in {"b", "1"} |->
                            Obj(<<"label">>,
                                [label |-> Str(IF i = "b" THEN "B" ELSE "ONE")])])])

\* The section names, in the order init launches their renderers.
Names == <<"site", "about", "menu", "services", "contact">>
NameSet == {Names[i] : i \in 1..Len(Names)}

\* What data/{name}.json may parse to; the content may differ from one
\* fetch to the next.  Num(0) is the document `0`, valid JSON and falsy.
DocsOf(name) ==
    CASE name = "site" -> {SiteFull, SiteNoName}
      [] name = "about" -> {AboutFull, AboutNoFeatures, AboutNotSequences, AboutUnprintable}
      [] name = "menu" -> {MenuFull, MenuNoCategories, MenuCategoryNoItems}
      [] name = "services" -> {ServicesFull, ServicesNoItems, Num(0)}
      [] name = "contact" -> {ContactFull, ContactNoDetails, ContactDetailsString,
                              ContactIndexKeys}

-----------------------------------------------------------------------------
(* loadData.                                                                *)

\* `if (dataCache[filename])`: the cache test is a truthiness test.
CacheHit(cache, name) == Truthy(cache[name])

\* How a retrieval can go: fetch() rejects, the response is not ok, reading
\* the body rejects, the body is not JSON, the body parses to a document.
FetchOutcomes == {"reject", "notok", "ok"}
BodyOutcomes == {"bodyfail", "badjson", "parsed"}

Returned(value, store, logs) ==
    [threw |-> FALSE, error |-> "", value |-> value, store |-> store, logs |-> logs]
Thrown(error) ==
    [threw |-> TRUE, error |-> error, value |-> Undef, store |-> FALSE, logs |-> {}]

\* The try block of loadData, tolerant version, for one way the retrieval
\* goes: what it returns or throws, whether it stores the document, what it
\* logs.
LoadDataTryTolerant(name, outcome, body) ==
    CASE outcome = "reject" -> Thrown("TypeError: Failed to fetch")
      [] outcome = "notok" -> Thrown("Error: Failed to load " \o name)
      [] outcome = "bodyfail" -> Thrown("TypeError: body read failed")
      [] outcome = "badjson" ->
            Returned(Null, FALSE,
                     {"JSON syntax error in " \o name \o ".json: SyntaxError",
                      "Check for missing commas, extra commas, or unclosed brackets"})
      [] outcome = "parsed" -> Returned(body, TRUE, {})

\* The try block of loadData, strict version: response.json() rejects both
\* on a failed body read and on a body that is not JSON.
LoadDataTryStrict(name, outcome, body) ==
    CASE outcome = "reject" -> Thrown("TypeError: Failed to fetch")
      [] outcome = "notok" -> Thrown("Error: Failed to load " \o name)
      [] outcome = "bodyfail" -> Thrown("TypeError: body read failed")
      [] outcome = "badjson" -> Thrown("SyntaxError")
      [] outcome = "parsed" -> Returned(body, TRUE, {})

\* LoadDataCatch with the failure remembered in the cache.
LoadDataCatch_StoresFailure(name, attempt) ==
    IF attempt.threw
      THEN Returned(Null, TRUE, {"Error loading " \o name \o ": " \o attempt.error})
      ELSE [attempt EXCEPT !.store = TRUE]

\* LoadDataCatch catching only what fetch itself throws.
LoadDataCatch_Rethrows(name, attempt) ==
    IF attempt.threw /\ attempt.error = "TypeError: Failed to fetch"
      THEN Returned(Null, FALSE, {"Error loading " \o name \o ": " \o attempt.error})
      ELSE attempt

\* The catch block of loadData around the try block's result.
LoadDataCatch(name, attempt) ==
    IF attempt.threw
      THEN Returned(Null, FALSE, {"Error loading " \o name \o ": " \o attempt.error})
      ELSE attempt

\* loadData from the point its retrieval settles.
LoadData(v, name, outcome, body) ==
    LoadDataCatch(name, IF v = "tolerant" THEN LoadDataTryTolerant(name, outcome, body)
                        ELSE LoadDataTryStrict(name, outcome, body))

-----------------------------------------------------------------------------
(* State.                                                                   *)

Renderers == 1..Len(Names)
Callers == (Len(Names) + 1)..(Len(Names) + MaxCalls)
TaskIds == Renderers \cup Callers

\* The names direct callers ask for.
CallNames == {"site", "services"}

\* A task is one call of loadData together with what awaits it: for a
\* renderer the rest of the renderer, for a direct caller nothing.
\*   pc       "idle", "fetch" (awaiting fetch), "body" (awaiting the body),
\*            "returned" (direct call done), "fulfilled"/"rejected" (renderer)
\*   outcome  how the retrieval went ("cached": no retrieval was made)
\*   body     the document the body parsed to, if it did
\*   ret      the value loadData returned; raised: loadData threw instead
IdleTask(name) ==
    [name |-> name, pc |-> "idle", outcome |-> "none", body |-> Undef,
     ret |-> Undef, raised |-> FALSE]

Init ==
    /\ variant \in Variants
    /\ dataCache = [n \in NameSet |-> Undef]
    /\ fetches = [n \in NameSet |-> 0]
    /\ task = [t \in TaskIds |-> IdleTask(IF t \in Renderers THEN Names[t] ELSE "")]
    /\ dom = Skeleton
    /\ initPc = "loading"
    /\ navWired = 0
    /\ console = {}

\* The record of a task whose loadData has produced res.
ReturnedTask(name, outcome, body, res) ==
    [name |-> name, pc |-> "returned", outcome |-> outcome,
     body |-> body, ret |-> res.value, raised |-> res.threw]

\* The record of the renderer's task and the page after the renderer has
\* run with result r.
Awaited(base, r) == [task |-> [base EXCEPT !.pc = r.pc], dom |-> r.dom]

\* Settled with a renderer giving up, without rendering, once another
\* renderer has been rejected.
Settled_StopsAfterReject(t, name, outcome, body, res, d) ==
    IF t \in Renderers
      THEN IF \E r \in Renderers : task[r].pc = "rejected"
             THEN [task |-> [ReturnedTask(name, outcome, body, res) EXCEPT !.pc = "fulfilled"],
                   dom |-> d]
             ELSE Awaited(ReturnedTask(name, outcome, body, res),
                          RunRenderer(variant, name, res, d))
      ELSE [task |-> ReturnedTask(name, outcome, body, res), dom |-> d]

\* The task record and page after loadData has produced res for task t
\* and the awaiting code has run.
Settled(t, name, outcome, body, res, d) ==
    IF t \in Renderers
      THEN Awaited(ReturnedTask(name, outcome, body, res),
                   RunRenderer(variant, name, res, d))
      ELSE [task |-> ReturnedTask(name, outcome, body, res), dom |-> d]

\* The synchronous part of loadData(name) for task t on page d: a cache
\* hit returns the cached value, a miss issues the fetch.
Called(t, name, d) ==
    IF CacheHit(dataCache, name)
      THEN Settled(t, name, "cached", Undef, Returned(dataCache[name], FALSE, {}), d)
      ELSE [task |-> [IdleTask(name) EXCEPT !.pc = "fetch"], dom |-> d]

\* The tasks and page acc with task i now as c.
Started(acc, i, c) == [task |-> [acc.task EXCEPT ![i] = c.task], dom |-> c.dom]

\* The tasks and the page become those of r.
Becomes(r) == task' = r.task /\ dom' = r.dom

\* The five renderers started one after the other, from renderer i on.
RECURSIVE Launch(_, _)
Launch(i, acc) ==
    IF i > Len(Names) THEN acc
    ELSE Launch(i + 1, Started(acc, i, Called(i, Names[i], acc.dom)))

\* DOMContentLoaded: init starts the five renderers, each runs to its first
\* await, and init awaits Promise.all.
InitStart ==
    /\ initPc = "loading"
    /\ Becomes(Launch(1, [task |-> task, dom |-> dom]))
    /\ fetches' = [n \in NameSet |->
                     IF CacheHit(dataCache, n) THEN fetches[n] ELSE fetches[n] + 1]
    /\ initPc' = "await"
    /\ UNCHANGED <<variant, dataCache, navWired, console>>

\* A direct call loadData(n) by caller c.  Callers start in order.
CallLoadData(c, n) ==
    /\ c \in Callers
    /\ task[c].pc = "idle"
    /\ \A b \in Callers : b < c => task[b].pc # "idle"
    /\ Becomes(Started([task |-> task, dom |-> dom], c, Called(c, n, dom)))
    /\ fetches' = IF CacheHit(dataCache, n) THEN fetches
                  ELSE [fetches EXCEPT ![n] = @ + 1]
    /\ UNCHANGED <<variant, dataCache, initPc, navWired, console>>

\* loadData of task t resumes with res and the awaiting code runs.
Finish(t, outcome, body, res) ==
    /\ Becomes(Started([task |-> task, dom |-> dom], t,
                       Settled(t, task[t].name, outcome, body, res, dom)))
    /\ dataCache' = IF res.store THEN [dataCache EXCEPT ![task[t].name] = res.value]
                    ELSE dataCache
    /\ console' = console \cup res.logs
    /\ UNCHANGED <<variant, fetches, initPc, navWired>>

\* The fetch of task t settles.
FetchSettle(t, outcome) ==
    /\ task[t].pc = "fetch"
    /\ IF outcome = "ok"
         THEN /\ task' = [task EXCEPT ![t].pc = "body"]
              /\ UNCHANGED <<variant, dataCache, fetches, dom, initPc, navWired, console>>
         ELSE Finish(t, outcome, Undef, LoadData(variant, task[t].name, outcome, Undef))

\* The body read of task t settles; a body that parses gives document body.
BodySettle(t, outcome, body) ==
    /\ task[t].pc = "body"
    /\ Finish(t, outcome, body, LoadData(variant, task[t].name, outcome, body))

\* PromiseAll fulfilled by the first fulfilled promise (as Promise.any).
PromiseAll_FirstFulfilled(pcs) ==
    IF \E i \in DOMAIN pcs : pcs[i] = "rejected" THEN "rejected"
    ELSE IF \E i \in DOMAIN pcs : pcs[i] = "fulfilled" THEN "fulfilled"
    ELSE "pending"

\* Promise.all over the renderers' promises.
PromiseAll(pcs) ==
    IF \E i \in DOMAIN pcs : pcs[i] = "rejected" THEN "rejected"
    ELSE IF \A i \in DOMAIN pcs : pcs[i] = "fulfilled" THEN "fulfilled"
    ELSE "pending"

RendererPcs == [r \in Renderers |-> task[r].pc]

\* init resumes after Promise.all fulfilled: initNavigation wires the page
\* chrome, then the success message is logged.
InitResume ==
    /\ initPc = "await"
    /\ PromiseAll(RendererPcs) = "fulfilled"
    /\ navWired' = navWired + 1
    /\ console' = console \cup {"Uncle & Aunty Kitchen loaded successfully!"}
    /\ initPc' = "done"
    /\ UNCHANGED <<variant, dataCache, fetches, task, dom>>

\* init resumes after Promise.all rejected: its catch block logs.
InitCatch ==
    /\ initPc = "await"
    /\ PromiseAll(RendererPcs) = "rejected"
    /\ console' = console \cup {"Error initializing app: TypeError"}
    /\ initPc' = "caught"
    /\ UNCHANGED <<variant, dataCache, fetches, task, dom, navWired>>

\* The documents the body of task t may parse to.
BodiesOf(t, outcome) ==
    IF task[t].pc = "body" /\ outcome = "parsed" THEN DocsOf(task[t].name) ELSE {Undef}

\* The page: init and its five renderers.
Next ==
    \/ InitStart
    \/ \E t \in Renderers, o \in FetchOutcomes : FetchSettle(t, o)
    \/ \E t \in Renderers, o \in BodyOutcomes :
          \E d \in BodiesOf(t, o) : BodySettle(t, o, d)
    \/ InitResume
    \/ InitCatch

Spec == Init /\ [][Next]_vars

\* The content store accessor alone, called directly.
NextLoad ==
    \/ \E c \in Callers, n \in CallNames : CallLoadData(c, n)
    \/ \E t \in Callers, o \in FetchOutcomes : FetchSettle(t, o)
    \/ \E t \in Callers, o \in BodyOutcomes :
          \E d \in BodiesOf(t, o) : BodySettle(t, o, d)

SpecLoad == Init /\ [][NextLoad]_vars

-----------------------------------------------------------------------------
(* Vocabulary of the properties.                                            *)

Failures == {"reject", "notok", "bodyfail", "badjson"}
Pending == {"fetch", "body"}
Done == {"returned", "fulfilled", "rejected"}

\* The render targets of a section.
Region(name) ==
    CASE name = "site" -> {".hero h1", ".tagline", ".subtitle", ".nav-logo",
                           ".footer-logo", ".copyright"}
      [] name = "about" -> {"#about h2", "#about .about-text"}
      [] name = "menu" -> {"#menu h2", "#menu .menu-grid", "#menu .menu-note"}
      [] name = "services" -> {"#services h2", "#services .services-grid"}
      [] name = "contact" -> {"#contact h2", "#contact .contact-info",
                              "#contact .contact-cta"}

\* Task t has just completed its loadData call in this step.
Completes(t) == task[t].pc \in Pending /\ task'[t].pc \in Done

\* The tasks that have called loadData(n).
CallsOf(n) == {t \in TaskIds : task[t].pc # "idle" /\ task[t].name = n}

-----------------------------------------------------------------------------
(* The content store accessor (SpecLoad).                                   *)

\* C1: for every name, when every loadData call made for it has completed
\* and none of them failed, at most one fetch of data/{name}.json was
\* issued.  (A call made after an earlier call has stored the document is
\* the case where the earlier call completed first.)
C1_AtMostOneFetch ==
    \A n \in NameSet :
        (\A t \in CallsOf(n) : task[t].pc \in Done /\ task[t].outcome \notin Failures)
            => fetches[n] <= 1

\* C2: no negative caching.  A call that ends in a transport or parse
\* failure leaves the cache as it was; as long as no retrieval of a name
\* has succeeded the cache holds no entry for it; a call answered from the
\* cache never gets a failure; and a call for a name without an entry
\* issues a new fetch.
C2_NoNegativeCaching ==
    /\ [](/\ \A n \in NameSet :
              (\A t \in CallsOf(n) : task[t].outcome # "parsed") => dataCache[n] = Undef
          /\ \A t \in TaskIds :
              (task[t].ret = Null /\ task[t].pc \in Done) => task[t].outcome \in Failures)
    /\ [][/\ \A t \in TaskIds :
                (Completes(t) /\ task'[t].outcome \in Failures) => dataCache' = dataCache
          /\ \A t \in TaskIds :
                (task[t].pc = "idle" /\ task'[t].pc # "idle"
                    /\ dataCache[task'[t].name] = Undef)
                => /\ task'[t].pc = "fetch"
                   /\ fetches'[task'[t].name] = fetches[task'[t].name] + 1]_vars

\* C2 witness: a call for a name has failed, the cache holds no entry for
\* the name, and another call for it has issued a second fetch.
C2_Witness ==
    \E a, b \in Callers :
        /\ a # b
        /\ task[a].pc = "returned" /\ task[a].outcome \in Failures
        /\ task[b].pc = "fetch" /\ task[b].name = task[a].name
        /\ dataCache[task[a].name] = Undef
        /\ fetches[task[a].name] = 2

\* C3: loadData never raises.  Every completed call has returned a value:
\* null after a rejected fetch, a response that is not ok, a failed body
\* read or a body that does not parse, and the parsed document otherwise;
\* a renderer whose load failed is not rejected.
C3_LoadDataNeverRaises ==
    \A t \in TaskIds :
        task[t].pc \in Done =>
            /\ ~task[t].raised
            /\ task[t].outcome \in Failures =>
                  (task[t].ret = Null /\ task[t].pc # "rejected")
            /\ task[t].outcome = "parsed" => task[t].ret = task[t].body

\* C3 witness: the four failure outcomes and a success have all happened.
C3_Witness ==
    /\ \A o \in Failures : \E t \in Renderers :
          task[t].pc = "fulfilled" /\ task[t].outcome = o /\ task[t].ret = Null
    /\ \E t \in Renderers :
          task[t].pc = "fulfilled" /\ task[t].outcome = "parsed"
              /\ task[t].ret \in DocsOf(task[t].name)

\* C4: all loadData calls for one name that return a document return the
\* same document.
C4_SameValuePerName ==
    \A a, b \in TaskIds :
        (/\ task[a].pc \in Done /\ task[b].pc \in Done
         /\ task[a].name = task[b].name
         /\ task[a].outcome \in {"parsed", "cached"}
         /\ task[b].outcome \in {"parsed", "cached"})
            => task[a].ret = task[b].ret

-----------------------------------------------------------------------------
(* The page (Spec).                                                         *)

\* The steps of a section's renderer on doc hit a TypeError.
Faults(v, name, doc) ==
    \E i \in 1..Len(RenderSteps(v, name, doc)) : RenderSteps(v, name, doc)[i].throws

\* Every target of the section holds what the renderer writes for doc.
RenderedFrom(name, doc) ==
    \A x \in Region(name) :
        dom[x] = RunSteps(RenderSteps(variant, name, doc), Skeleton).dom[x]

Untouched(name) == \A x \in Region(name) : dom[x] = Skeleton[x]
AllWritten(name) == \A x \in Region(name) : dom[x] # Skeleton[x]

\* C5: a renderer whose loadData call returns NotFound (or any falsy
\* value) returns normally and changes nothing on the page.
C5_NotFoundNoMutation ==
    [][\A r \in Renderers :
          (Completes(r) /\ ~Truthy(task'[r].ret))
              => (dom' = dom /\ task'[r].pc = "fulfilled")]_vars

\* C5 witness: all five renderers got NotFound and the page is the skeleton.
C5_Witness ==
    /\ \A r \in Renderers :
          task[r].pc = "fulfilled" /\ task[r].ret = Null /\ task[r].outcome \in Failures
    /\ dom = Skeleton

\* C6: failures never cross a section boundary.  A section whose own
\* document was retrieved and parsed, and whose own render does not fail,
\* has its region rendered from that document in the task that delivered
\* the document, whatever state the other four sections are in; and a
\* section's region changes only in a step of that section's own renderer.
C6_SectionsIndependent ==
    /\ [](\A r \in Renderers :
            (/\ task[r].outcome = "parsed"
             /\ Truthy(task[r].body)
             /\ ~Faults(variant, task[r].name, task[r].body))
                => (task[r].pc = "fulfilled" /\ RenderedFrom(task[r].name, task[r].body)))
    /\ [][\A r \in Renderers : \A x \in Region(Names[r]) :
            dom'[x] # dom[x] => Completes(r)]_vars

\* C6 witness: services is rendered from its document while site was
\* rejected by a TypeError, about's fetch is still pending, menu got
\* NotFound and contact's document was not JSON.
C6_Witness ==
    /\ task[4].pc = "fulfilled" /\ task[4].body = ServicesFull
    /\ RenderedFrom("services", ServicesFull) /\ AllWritten("services")
    /\ task[1].pc = "rejected"
    /\ task[2].pc = "fetch"
    /\ task[3].pc = "fulfilled" /\ task[3].outcome = "notok"
    /\ task[5].pc = "fulfilled" /\ task[5].outcome = "badjson"
    /\ initPc = "caught"

\* C7: initNavigation has run only if all five renderers have settled, and
\* no step at or after it writes to the page.
C7_ChromeAfterContent ==
    /\ [](navWired > 0 => \A r \in Renderers : task[r].pc \in {"fulfilled", "rejected"})
    /\ [][navWired' > 0 => dom' = dom]_vars

\* C7 witness: initNavigation has run on a page with rendered sections.
C7_Witness ==
    /\ navWired = 1
    /\ initPc = "done"
    /\ \A r \in Renderers : task[r].pc = "fulfilled"
    /\ \E n \in NameSet : AllWritten(n)

\* C8: once all five fetches have settled and init has finished,
\* initNavigation has run exactly once.
C8_NavigationAlwaysWired ==
    (/\ \A r \in Renderers : task[r].pc \in {"fulfilled", "rejected"}
     /\ initPc \in {"done", "caught"})
        => navWired = 1

\* The repeating groups of a section: where the group is rendered and the
\* tag that opens one item of it.
GroupsOf(name) ==
    CASE name = "about" ->
            {[group |-> "paragraphs", target |-> "#about .about-text", tag |-> "<p>"],
             [group |-> "features", target |-> "#about .about-text",
              tag |-> "<div class=\"feature\">"]}
      [] name = "menu" ->
            {[group |-> "categories", target |-> "#menu .menu-grid",
              tag |-> "<div class=\"menu-category\">"],
             [group |-> "category items", target |-> "#menu .menu-grid", tag |-> "<li>"]}
      [] name = "services" ->
            {[group |-> "items", target |-> "#services .services-grid",
              tag |-> "<div class=\"service-card\">"]}
      [] name = "contact" ->
            {[group |-> "details", target |-> "#contact .contact-info",
              tag |-> "<div class=\"contact-item\">"]}
      [] OTHER -> {}

\* The group is absent from doc or is not a sequence (for contact.details:
\* neither a mapping nor a sequence).
GroupMissing(g, doc) ==
    CASE g.group = "category items" ->
            LET cs == Get(doc, "categories")
            IN /\ IsArray(cs)
               /\ Len(cs.a) > 0
               /\ \A i \in 1..Len(cs.a) :
                     CanRead(cs.a[i]) /\ ~IsArray(Get(cs.a[i], "items"))
      [] g.group = "details" -> Get(doc, "details").t \notin {"object", "array"}
      [] OTHER -> ~IsArray(Get(doc, g.group))

CountOf(tokens, tag) == Cardinality({i \in 1..Len(tokens) : tokens[i] = tag})

\* C9: missing optional fields degrade per field.  For a parsed document
\* of about, menu, services or contact with a repeating group absent or not
\* a sequence, the renderer completes without a fault, renders no item of
\* that group and writes every target of the section.
C9_MissingGroupsDegrade ==
    \A r \in Renderers :
        (task[r].outcome = "parsed" /\ Truthy(task[r].body)) =>
            \A g \in GroupsOf(task[r].name) :
                GroupMissing(g, task[r].body) =>
                    /\ task[r].pc = "fulfilled"
                    /\ CountOf(dom[g.target], g.tag) = 0
                    /\ AllWritten(task[r].name)

\* C10: each section render is all-or-nothing.  Between tasks a section's
\* region is either entirely as in the skeleton or entirely written.
C10_AllOrNothing ==
    \A n \in NameSet : Untouched(n) \/ AllWritten(n)

====
